---- MODULE Spec2Model ----
\* A model of app2.py, the Streamlit "Advanced ATS Resume Expert":
\*   - process_uploaded_file / input_pdf_setup / input_docx_setup
\*     (the document-to-image normalisation),
\*   - analyze_resume_structure (the percent-score extraction),
\*   - the button handlers of the page and st.session_state.
\* Python strings are sequences of one-character strings, so that split,
\* strip, len and the regular expression are computed, not assumed.
EXTENDS Integers, Sequences, FiniteSets, TLC

VARIABLES
    chat_history,      \* st.session_state.chat_history
    analysis_results,  \* st.session_state.analysis_results
    resume_text,       \* st.session_state.resume_text
    uploaded_file,     \* the UploadedFile of st.file_uploader, or None
    input_text,        \* the job-description text area
    arial,             \* whether ImageFont.truetype("arial.ttf") succeeds here
    arg,               \* the argument of the function under call
    ret                \* what the last call or handler produced

vars == <<chat_history, analysis_results, resume_text, uploaded_file,
          input_text, arial, arg, ret>>

session_state == <<chat_history, analysis_results, resume_text>>

----------------------------------------------------------------------------
\* Bounds of the exploration.

\* longest response text given to analyze_resume_structure on its own
MaxRespLen == 4
\* most words in the free part of a text given to the wrapping loop
MaxWords == 2
\* most extra one-word paragraphs appended to such a text
MaxTail == 10
\* most paragraphs of an uploaded DOCX document
MaxParas == 2
\* most pages of an uploaded PDF document
MaxPages == 2
\* most entries of chat_history before the handlers stop appending
MaxHistory == 1
\* most calls of process_uploaded_file on one file object
MaxCalls == 2

----------------------------------------------------------------------------
\* Python values.

None == <<>>
EmptyDict == <<>>
EmptyStr == <<>>

Digits == {"0", "1", "2", "3", "4", "5", "6", "7", "8", "9"}

\* str.isspace for the characters that occur
Whitespace == {" ", "\n", "\t"}

Max(a, b) == IF a >= b THEN a ELSE b

\* c repeated n times
Rep(c, n) == [i \in 1..n |-> c]

\* str.strip(): drop the whitespace at both ends
Strip(s) ==
    LET keep == {i \in 1..Len(s) : s[i] \notin Whitespace}
    IN  IF keep = {} THEN EmptyStr
        ELSE LET lo == CHOOSE i \in keep : \A j \in 1..(i - 1) : s[j] \in Whitespace
                 hi == CHOOSE i \in keep : \A j \in (i + 1)..Len(s) : s[j] \in Whitespace
             IN  SubSeq(s, lo, hi)

\* the k-th smallest element of a set of integers
Nth(S, k) == CHOOSE i \in S : Cardinality({j \in S : j < i}) = k - 1

\* str.split(sep) for a one-character separator: the pieces between the
\* separators, one more piece than there are separators
SplitOn(s, sep) ==
    LET at == {i \in 1..Len(s) : s[i] = sep}
        cut(k) == IF k = 0 THEN 0
                  ELSE IF k = Cardinality(at) + 1 THEN Len(s) + 1
                  ELSE Nth(at, k)
    IN  [k \in 1..(Cardinality(at) + 1) |-> SubSeq(s, cut(k - 1) + 1, cut(k) - 1)]

\* str.split() without argument: the maximal runs of non-whitespace
Split(s) ==
    LET starts == {i \in 1..Len(s) :
                      s[i] \notin Whitespace /\ (i = 1 \/ s[i - 1] \in Whitespace)}
        ends == {i \in 1..Len(s) :
                      s[i] \notin Whitespace /\ (i = Len(s) \/ s[i + 1] \in Whitespace)}
    IN  [k \in 1..Cardinality(starts) |-> SubSeq(s, Nth(starts, k), Nth(ends, k))]

\* sep.join(parts)
RECURSIVE Join(_, _)
Join(parts, sep) ==
    IF parts = <<>> THEN EmptyStr
    ELSE IF Len(parts) = 1 THEN parts[1]
    ELSE parts[1] \o sep \o Join(Tail(parts), sep)

\* s.endswith(suffix)
EndsWith(s, suffix) ==
    /\ Len(suffix) <= Len(s)
    /\ SubSeq(s, Len(s) - Len(suffix) + 1, Len(s)) = suffix

DigitVal(c) ==
    CASE c = "0" -> 0 [] c = "1" -> 1 [] c = "2" -> 2 [] c = "3" -> 3
      [] c = "4" -> 4 [] c = "5" -> 5 [] c = "6" -> 6 [] c = "7" -> 7
      [] c = "8" -> 8 [] c = "9" -> 9

\* int(s) for a string of decimal digits
RECURSIVE int(_)
int(s) ==
    IF s = EmptyStr THEN 0
    ELSE 10 * int(SubSeq(s, 1, Len(s) - 1)) + DigitVal(s[Len(s)])

----------------------------------------------------------------------------
\* analyze_resume_structure

\* the regular expression (\d+)% tried at position i: \d+ takes the longest
\* run of digits from i, and gives digits back while no % follows
DigitRunEnd(s, i) ==
    CHOOSE e \in (i - 1)..Len(s) :
        /\ \A k \in i..e : s[k] \in Digits
        /\ (e = Len(s) \/ s[e + 1] \notin Digits)

MatchAt(s, i) ==
    LET e == DigitRunEnd(s, i)
        ends == {j \in i..e : j + 1 <= Len(s) /\ s[j + 1] = "%"}
    IN  IF ends = {} THEN None
        ELSE LET j == CHOOSE k \in ends : \A m \in ends : k >= m
             IN  <<i, j>>

\* re.findall(r'(\d+)%', s): the groups of the non-overlapping matches,
\* scanning from the left; after a match the scan resumes behind its %
RECURSIVE findallFrom(_, _)
findallFrom(s, i) ==
    LET found == {k \in i..Len(s) : MatchAt(s, k) # None}
    IN  IF found = {} THEN <<>>
        ELSE LET m == MatchAt(s, Nth(found, 1))
             IN  <<SubSeq(s, m[1], m[2])>> \o findallFrom(s, m[2] + 2)

findall(s) == findallFrom(s, 1)

NewAnalysis(score) ==
    [match_percentage |-> score, strengths |-> <<>>, weaknesses |-> <<>>,
     missing_skills |-> <<>>, suggestions |-> <<>>]

ScoreOf_LastMatch(percentages) == int(percentages[Len(percentages)])

\* line 235: int(percentages[0])
ScoreOf(percentages) == int(percentages[1])

ScoreOrDefault_Sentinel(percentages) ==
    IF percentages # <<>> THEN ScoreOf(percentages) ELSE -1

\* lines 233-235: the score when the text contains a %
ScoreOrDefault(percentages) ==
    IF percentages # <<>> THEN ScoreOf(percentages) ELSE 0

analyze_resume_structure(response_text) ==
    IF \E i \in 1..Len(response_text) : response_text[i] = "%"
    THEN NewAnalysis(ScoreOrDefault(findall(response_text)))
    ELSE NewAnalysis(0)

----------------------------------------------------------------------------
\* The extraction on its own: every text over RespAlphabet up to MaxRespLen.

RespAlphabet == {"0", "1", "5", "9", "%", "x"}

RespTexts == UNION {[1..n -> RespAlphabet] : n \in 0..MaxRespLen}

NotCalled == [called |-> FALSE, handler |-> "", status |-> "", failed |-> "", calls |-> <<>>]

InitIdleApp ==
    /\ chat_history = <<>>
    /\ analysis_results = EmptyDict
    /\ resume_text = EmptyStr
    /\ uploaded_file = None
    /\ input_text = EmptyStr
    /\ arial = FALSE

InitExtract ==
    /\ InitIdleApp
    /\ arg \in RespTexts
    /\ ret = NotCalled

CallExtract ==
    /\ ~ret.called
    /\ ret' = [called |-> TRUE, analysis |-> analyze_resume_structure(arg)]
    /\ UNCHANGED <<chat_history, analysis_results, resume_text, uploaded_file,
                   input_text, arial, arg>>

NextExtract == CallExtract

SpecExtract == InitExtract /\ [][NextExtract]_vars

\* the occurrences of "digits then %" in s, as <<first, last>> positions
Occurrences(s) ==
    {p \in (1..Len(s)) \X (1..Len(s)) :
        /\ p[1] <= p[2]
        /\ \A k \in p[1]..p[2] : s[k] \in Digits
        /\ p[2] + 1 <= Len(s)
        /\ s[p[2] + 1] = "%"}

RECURSIVE Pow10(_)
Pow10(n) == IF n = 0 THEN 1 ELSE 10 * Pow10(n - 1)

\* the base-10 value of the digits at positions p[1]..p[2]
RECURSIVE PlaceSum(_, _, _)
PlaceSum(s, lo, hi) ==
    IF lo > hi THEN 0
    ELSE DigitVal(s[lo]) * Pow10(hi - lo) + PlaceSum(s, lo + 1, hi)

FirstOccurrence(s) ==
    CHOOSE p \in Occurrences(s) : \A q \in Occurrences(s) : p[1] <= q[1]

\* C1: the score is the base-10 value of the digits of the first occurrence
\* of digits immediately followed by %, and 0 when there is none; nothing is
\* clamped.
C1_FirstPercent ==
    ret.called =>
        ret.analysis.match_percentage =
            IF Occurrences(arg) = {} THEN 0
            ELSE PlaceSum(arg, FirstOccurrence(arg)[1], FirstOccurrence(arg)[2])

\* a text with two occurrences of different values: the first one is returned
C1_Witness ==
    /\ ret.called
    /\ arg = <<"9", "%", "1", "%">>
    /\ ret.analysis.match_percentage = 9

\* C2 as stated: the score is an integer of the range 0..100.
C2_ScoreInRange ==
    ret.called => ret.analysis.match_percentage \in 0..100

\* C2, amended: the score is a non-negative integer; it is in 0..100 unless
\* the first occurrence of digits-then-% in the text has a value above 100,
\* and then it is that value.
C2_ScoreNonNegative ==
    ret.called =>
        /\ ret.analysis.match_percentage \in Nat
        /\ (ret.analysis.match_percentage \notin 0..100 =>
                /\ Occurrences(arg) # {}
                /\ ret.analysis.match_percentage =
                      PlaceSum(arg, FirstOccurrence(arg)[1], FirstOccurrence(arg)[2]))

\* the text "150%" has been scored, and the score is 150
C2_Witness ==
    /\ ret.called
    /\ arg = <<"1", "5", "0", "%">>
    /\ ret.analysis.match_percentage = 150

----------------------------------------------------------------------------
\* input_docx_setup: the text layout (lines 117-156)

max_chars == 100
font_size == 12
line_height == 20
img_width == 900
min_height == 400
margin == 40
left == 20
top == 20

\* line 126: the word, and the blank after it, still fit on the line
Fits(current_line, word) ==
    Len(current_line) + Len(word) + 1 <= max_chars

Flush_Overwrite(lines, current_line) ==
    IF current_line # EmptyStr THEN <<Strip(current_line)>> ELSE lines

\* lines 129-130 and 133-134: a line that holds something is flushed, stripped
Flush(lines, current_line) ==
    IF current_line # EmptyStr THEN Append(lines, Strip(current_line)) ELSE lines

\* lines 123-134: the loop over the words of one paragraph
RECURSIVE WrapWords(_, _, _, _)
WrapWords(words, i, current_line, lines) ==
    IF i > Len(words) THEN Flush(lines, current_line)
    ELSE IF Fits(current_line, words[i])
         THEN WrapWords(words, i + 1, current_line \o words[i] \o <<" ">>, lines)
         ELSE WrapWords(words, i + 1, words[i] \o <<" ">>, Flush(lines, current_line))

\* lines 121-135: the loop over the paragraphs; an empty line ends each
RECURSIVE WrapParagraphs(_, _, _)
WrapParagraphs(paragraphs, k, lines) ==
    IF k > Len(paragraphs) THEN lines
    ELSE WrapParagraphs(paragraphs, k + 1,
            Append(WrapWords(Split(paragraphs[k]), 1, EmptyStr, lines), EmptyStr))

WrapLines(text) == WrapParagraphs(SplitOn(text, "\n"), 1, <<>>)

ImgHeight_NoMinimum(line_count) == line_count * line_height + margin

\* line 140
ImgHeight(line_count) == Max(min_height, line_count * line_height + margin)

\* lines 146-149
LoadFont(arial_found) ==
    IF arial_found THEN [face |-> "arial.ttf", size |-> font_size]
    ELSE [face |-> "default", size |-> 0]

\* lines 152-156: one draw.text per line that is not blank, y advancing
\* by line_height for every line
RECURSIVE DrawLines(_, _, _, _)
DrawLines(lines, k, y_position, font) ==
    IF k > Len(lines) THEN <<>>
    ELSE (IF Strip(lines[k]) # EmptyStr
          THEN <<[xy |-> <<left, y_position>>, text |-> lines[k], font |-> font]>>
          ELSE <<>>)
         \o DrawLines(lines, k + 1, y_position + line_height, font)

\* lines 137-156: the white canvas and what is drawn on it
RenderText(lines, arial_found) ==
    [mode |-> "RGB",
     size |-> <<img_width, ImgHeight(Len(lines))>>,
     drawn |-> DrawLines(lines, 1, top, LoadFont(arial_found))]

----------------------------------------------------------------------------
\* The text layout on its own.

WordLens == {1, 49, 50, 100, 101, 250}

WrapWordSet == {Rep("a", n) : n \in WordLens}

WrapSeparators == {<<" ">>, <<"\n">>}

\* a word and the separator before the next one
WrapTokens == {w \o b : w \in WrapWordSet, b \in WrapSeparators}

RECURSIVE Concat(_)
Concat(ss) == IF ss = <<>> THEN EmptyStr ELSE Head(ss) \o Concat(Tail(ss))

\* k further paragraphs of the one word "b"
RECURSIVE TailParagraphs(_)
TailParagraphs(k) ==
    IF k = 0 THEN EmptyStr ELSE <<"\n", "b">> \o TailParagraphs(k - 1)

WrapHeads == {Concat(ts) : ts \in UNION {[1..n -> WrapTokens] : n \in 0..MaxWords}}

WrapTexts ==
    {h \o TailParagraphs(k) : h \in WrapHeads \cup WrapWordSet, k \in 0..MaxTail}

InitWrap ==
    /\ InitIdleApp
    /\ arg \in WrapTexts
    /\ ret = NotCalled

CallWrap ==
    /\ ~ret.called
    /\ ret' = [called |-> TRUE,
               lines |-> WrapLines(arg),
               image |-> RenderText(WrapLines(arg), arial)]
    /\ UNCHANGED <<chat_history, analysis_results, resume_text, uploaded_file,
                   input_text, arial, arg>>

NextWrap == CallWrap

SpecWrap == InitWrap /\ [][NextWrap]_vars

LineLens(lines) == [k \in 1..Len(lines) |-> Len(lines[k])]

\* C4: no produced line is longer than the column budget, and one paragraph
\* of 250 "a" gives the three lines of 100, 100 and 50 characters.
C4_LinesWithinBudget ==
    ret.called =>
        /\ \A k \in 1..Len(ret.lines) : Len(ret.lines[k]) <= max_chars
        /\ (arg = Rep("a", 250) =>
                LineLens(SelectSeq(ret.lines, LAMBDA l : l # EmptyStr))
                    = <<100, 100, 50>>)

\* C9: the canvas height is max(400, line_count * 20 + 40), never below
\* 400, and the empty text gives a canvas of height 400 with nothing drawn.
C9_CanvasHeight ==
    ret.called =>
        /\ ret.image.size[2] >= 400
        /\ (Len(ret.lines) * 20 + 40 >= 400 =>
                ret.image.size[2] = Len(ret.lines) * 20 + 40)
        /\ (Len(ret.lines) * 20 + 40 < 400 => ret.image.size[2] = 400)
        /\ (arg = EmptyStr =>
                /\ ret.image.size[2] = 400
                /\ ret.image.drawn = <<>>)

\* the empty text has been rendered
C9_Witness ==
    /\ ret.called
    /\ arg = EmptyStr
    /\ ret.image.size = <<900, 400>>

\* the words of the lines, read from the top line to the bottom one
RECURSIVE WordsOfLines(_, _)
WordsOfLines(lines, k) ==
    IF k > Len(lines) THEN <<>>
    ELSE Split(lines[k]) \o WordsOfLines(lines, k + 1)

\* C11: the words of the produced lines, read top to bottom, are the
\* whitespace-separated words of the input text in their order, none lost,
\* doubled or moved, and every word of the input stands whole on one line.
C11_WordsPreserved ==
    ret.called =>
        /\ WordsOfLines(ret.lines, 1) = Split(arg)
        /\ \A i \in 1..Len(Split(arg)) :
              \E k \in 1..Len(ret.lines) :
                \E j \in 1..Len(Split(ret.lines[k])) :
                  Split(ret.lines[k])[j] = Split(arg)[i]

\* two words that do not fit together on a line of 100 have been put on
\* two lines, before two further paragraphs
C11_Witness ==
    /\ ret.called
    /\ arg = Rep("a", 50) \o <<" ">> \o Rep("a", 50) \o <<"\n">>
                \o <<"\n", "b">> \o <<"\n", "b">>
    /\ Len(ret.lines) = 8
    /\ ret.lines[1] = Rep("a", 50)
    /\ ret.lines[2] = Rep("a", 50)

----------------------------------------------------------------------------
\* Uploaded files, and the libraries that decode them.
\* A file object is [name, data, pos]: data is the byte content as a
\* sequence of chunks (a magic number, then one chunk per page or per
\* paragraph), pos is the read position.

PDFMagic == <<"%PDF-">>
ZipMagic == <<"PK">>

NoError == [kind |-> "", msg |-> ""]

ValueError(msg) == [kind |-> "ValueError", msg |-> msg]

Rewind_Missing(f) == f

\* uploaded_file.seek(0), lines 87 and 109
Rewind(f) == [f EXCEPT !.pos = 0]

\* uploaded_file.read(): everything from the read position on
ReadBytes(f) == SubSeq(f.data, f.pos + 1, Len(f.data))

AfterRead(f) == [f EXCEPT !.pos = Len(f.data)]

\* a page of a PDF as a bitmap (pdf2image renders at 200 dpi)
Rasterize(page) == [mode |-> "RGB", dpi |-> 200, page |-> page]

\* pdf2image.convert_from_bytes: one bitmap per page, or an error when the
\* bytes do not start a PDF
convert_from_bytes(bytes) ==
    IF bytes = <<>> \/ bytes[1] # PDFMagic
    THEN [ok |-> FALSE, images |-> <<>>,
          error |-> [kind |-> "PDFPageCountError", msg |-> "Unable to get page count."]]
    ELSE [ok |-> TRUE,
          images |-> [i \in 1..(Len(bytes) - 1) |-> Rasterize(bytes[i + 1])],
          error |-> NoError]

\* docx.Document(file): the paragraphs of the package, or an error when the
\* file is no zip package; zipfile seeks by absolute offsets, so the read
\* position before the call does not matter
Document(f) ==
    IF f.data = <<>> \/ f.data[1] # ZipMagic
    THEN [ok |-> FALSE, paragraphs |-> <<>>,
          error |-> [kind |-> "BadZipFile", msg |-> "File is not a zip file"]]
    ELSE [ok |-> TRUE, paragraphs |-> Tail(f.data), error |-> NoError]

\* image.save(buffer, format='JPEG', quality=q) and getvalue()
SaveJPEG(image, q) == [format |-> "JPEG", quality |-> q, image |-> image]

\* lines 96-99 and 163-166: base64 text of the JPEG bytes, with the MIME type
ImagePart(jpeg) == [mime_type |-> "image/jpeg", data |-> [base64 |-> jpeg]]

\* what a call gives back: the returned parts or the error that leaves the
\* function (raised: the error at the point of failure), the file object and
\* st.session_state.resume_text after the call, the functions entered and
\* the st.error messages shown
Returned(parts, f, text, calls) ==
    [ok |-> TRUE, parts |-> parts, error |-> NoError, raised |-> NoError,
     file |-> f, resume_text |-> text, calls |-> calls, shown |-> <<>>]

Raised(error, raised, f, text, calls) ==
    [ok |-> FALSE, parts |-> <<>>, error |-> error, raised |-> raised,
     file |-> f, resume_text |-> text, calls |-> calls, shown |-> <<>>]

WrapError_Reraise(prefix, e) == e

\* lines 101-102 and 168-169: raise ValueError(f"{prefix}{e}")
WrapError(prefix, e) == ValueError(prefix \o e.msg)

FirstPage_Last(images) == images[Len(images)]

\* line 89
FirstPage(images) == images[1]

\* lines 81-102
input_pdf_setup(f, text) ==
    LET f0 == Rewind(f)
        conv == convert_from_bytes(ReadBytes(f0))
        f1 == AfterRead(f0)
        calls == <<"input_pdf_setup", "convert_from_bytes">>
        IndexError == [kind |-> "IndexError", msg |-> "list index out of range"]
    IN  IF ~conv.ok
        THEN Raised(WrapError("Error processing PDF: ", conv.error), conv.error,
                    f1, text, calls)
        ELSE IF conv.images = <<>>
        THEN Raised(WrapError("Error processing PDF: ", IndexError), IndexError,
                    f1, text, calls)
        ELSE Returned(<<ImagePart(SaveJPEG(FirstPage(conv.images), 85))>>,
                      f1, text, calls)

\* line 111: the paragraphs that are not blank, joined by newlines
DocumentText(paragraphs) ==
    Join(SelectSeq(paragraphs, LAMBDA q : Strip(q) # EmptyStr), <<"\n">>)

StoreResumeText_Skipped(old, text) == old

\* line 114: st.session_state.resume_text = text
StoreResumeText(old, text) == text

\* lines 104-169; endpos is where zipfile leaves the read position
input_docx_setup(f, text, endpos, arial_found) ==
    LET f0 == Rewind(f)
        doc == Document(f0)
        f1 == [f0 EXCEPT !.pos = endpos]
        calls == <<"input_docx_setup", "Document">>
        extracted == DocumentText(doc.paragraphs)
    IN  IF ~doc.ok
        THEN Raised(WrapError("Error processing DOCX: ", doc.error), doc.error,
                    f1, text, calls)
        ELSE Returned(
                <<ImagePart(SaveJPEG(RenderText(WrapLines(extracted), arial_found), 90))>>,
                f1, StoreResumeText(text, extracted), calls)

Lower(c) ==
    CASE c = "P" -> "p" [] c = "D" -> "d" [] c = "F" -> "f" [] c = "O" -> "o"
      [] c = "C" -> "c" [] c = "X" -> "x" [] OTHER -> c

IsPdfName_AnyCase(name) ==
    EndsWith([i \in 1..Len(name) |-> Lower(name[i])], <<".", "p", "d", "f">>)

\* line 176
IsPdfName(name) == EndsWith(name, <<".", "p", "d", "f">>)

\* line 178
IsDocxName(name) == EndsWith(name, <<".", "d", "o", "c", "x">>)

\* lines 182-184: st.error(...), then the error is raised again as it is
Reported(out) ==
    IF out.ok THEN out
    ELSE [out EXCEPT !.shown = <<"File processing error: " \o out.error.msg>>]

\* lines 171-184
process_uploaded_file(f, text, endpos, arial_found) ==
    LET out == IF IsPdfName(f.name) THEN input_pdf_setup(f, text)
               ELSE IF IsDocxName(f.name)
               THEN input_docx_setup(f, text, endpos, arial_found)
               ELSE LET e == ValueError("Unsupported file format. Please upload PDF or DOCX.")
                    IN  Raised(e, e, f, text, <<>>)
    IN  Reported([out EXCEPT !.calls = <<"process_uploaded_file">> \o out.calls])

----------------------------------------------------------------------------
\* process_uploaded_file on its own: one file object, called repeatedly.

FileNames ==
    {<<"r", ".", "p", "d", "f">>, <<"r", ".", "d", "o", "c", "x">>,
     <<"r", ".", "P", "D", "F">>, <<"r", ".", "t", "x", "t">>,
     <<"r", ".", "p", "d", "f", ".", "d", "o", "c", "x">>, <<"p", "d", "f">>}

PageChunks == {<<"page-A">>, <<"page-B">>}

ParagraphChunks == {<<"a", "b", " ", "c">>, <<" ">>, <<"d", "\n", "e">>}

SeqsUpTo(S, n) == UNION {[1..k -> S] : k \in 0..n}

PdfDatas == {<<PDFMagic>> \o pages : pages \in SeqsUpTo(PageChunks, MaxPages)}

DocxDatas == {<<ZipMagic>> \o paras : paras \in SeqsUpTo(ParagraphChunks, MaxParas)}

JunkDatas == {<<>>, <<<<"junk">>>>}

FileDatas == PdfDatas \cup DocxDatas \cup JunkDatas

InitNormalizer ==
    /\ chat_history = <<>>
    /\ analysis_results = EmptyDict
    /\ resume_text = EmptyStr
    /\ input_text = EmptyStr
    /\ arial \in BOOLEAN
    /\ uploaded_file \in UNION {{[name |-> n, data |-> d, pos |-> q] :
                                     n \in FileNames, q \in 0..Len(d)} : d \in FileDatas}
    /\ arg = 0
    /\ ret = NotCalled

\* a call of process_uploaded_file(uploaded_file)
CallProcess ==
    /\ arg < MaxCalls
    /\ \E endpos \in 0..Len(uploaded_file.data) :
          LET out == process_uploaded_file(uploaded_file, resume_text, endpos, arial)
          IN  /\ uploaded_file' = out.file
              /\ resume_text' = out.resume_text
              /\ ret' = [called |-> TRUE, given |-> uploaded_file, out |-> out]
    /\ arg' = arg + 1
    /\ UNCHANGED <<chat_history, analysis_results, input_text, arial>>

\* the same bytes under the same name arrive as a fresh file object
NewStream ==
    /\ ret.called
    /\ uploaded_file.pos # 0
    /\ uploaded_file' = [uploaded_file EXCEPT !.pos = 0]
    /\ UNCHANGED <<chat_history, analysis_results, resume_text, input_text,
                   arial, arg, ret>>

NextNormalizer == CallProcess \/ NewStream

SpecNormalizer == InitNormalizer /\ [][NextNormalizer]_vars

Entered(out, fn) == \E i \in 1..Len(out.calls) : out.calls[i] = fn

TimesEntered(out, fn) == Cardinality({i \in 1..Len(out.calls) : out.calls[i] = fn})

\* C3: a name ending in .pdf goes to input_pdf_setup, a name ending in .docx
\* to input_docx_setup, and any other name fails with the unsupported-format
\* error, enters neither renderer and gives no image.
C3_DispatchOnExtension ==
    ret.called =>
        LET n == ret.given.name
            pdf == Len(n) >= 4 /\ SubSeq(n, Len(n) - 3, Len(n)) = <<".", "p", "d", "f">>
            docx == Len(n) >= 5 /\ SubSeq(n, Len(n) - 4, Len(n)) = <<".", "d", "o", "c", "x">>
        IN  /\ pdf => /\ Entered(ret.out, "input_pdf_setup")
                      /\ ~Entered(ret.out, "input_docx_setup")
            /\ docx => /\ Entered(ret.out, "input_docx_setup")
                       /\ ~Entered(ret.out, "input_pdf_setup")
            /\ (~pdf /\ ~docx) =>
                  /\ ~ret.out.ok
                  /\ ret.out.error =
                        [kind |-> "ValueError",
                         msg |-> "Unsupported file format. Please upload PDF or DOCX."]
                  /\ ret.out.calls = <<"process_uploaded_file">>
                  /\ ret.out.parts = <<>>

\* a file named r.txt that holds a valid PDF has been rejected
C3_Witness ==
    /\ ret.called
    /\ ret.given.name = <<"r", ".", "t", "x", "t">>
    /\ ret.given.data = <<PDFMagic, <<"page-A">>>>
    /\ ~ret.out.ok

\* C5 as stated: no step of the normalizer changes st.session_state.
C5_SessionStateUnchanged ==
    [][session_state' = session_state]_vars

\* C5, amended: a call leaves chat_history and analysis_results unchanged;
\* it leaves resume_text unchanged on the PDF path, for an unsupported name
\* and for a DOCX that cannot be opened, and a DOCX that opens overwrites
\* resume_text with its non-blank paragraphs joined by newlines.
C5_OnlyDocxStoresText ==
    [][/\ chat_history' = chat_history
       /\ analysis_results' = analysis_results
       /\ (arg' = arg + 1 =>
             IF /\ IsDocxName(uploaded_file.name) /\ ~IsPdfName(uploaded_file.name)
                /\ uploaded_file.data # <<>>
                /\ uploaded_file.data[1] = ZipMagic
             THEN resume_text' = DocumentText(Tail(uploaded_file.data))
             ELSE resume_text' = resume_text)]_vars

\* a DOCX has been processed and its text is in the session state
C5_Witness ==
    /\ ret.called
    /\ ret.out.ok
    /\ IsDocxName(ret.given.name)
    /\ resume_text = <<"a", "b", " ", "c", "\n", "d", "\n", "e">>

RendererFailed(out) ==
    /\ ~out.ok
    /\ Entered(out, "input_pdf_setup") \/ Entered(out, "input_docx_setup")

\* C6 as stated: the error raised inside a renderer reaches the caller as
\* it was raised, the failing step ran once and no payload is returned.
C6_ErrorUnchanged ==
    (ret.called /\ RendererFailed(ret.out)) =>
        /\ ret.out.error = ret.out.raised
        /\ TimesEntered(ret.out, "convert_from_bytes") <= 1
        /\ TimesEntered(ret.out, "Document") <= 1
        /\ ret.out.parts = <<>>

\* C6, amended: the error raised inside a renderer is replaced by a
\* ValueError whose message is "Error processing PDF: " or
\* "Error processing DOCX: " followed by the message of the original error;
\* that ValueError leaves process_uploaded_file as it is, the failing step
\* ran once and no payload is returned.
C6_ErrorWrapped ==
    (ret.called /\ RendererFailed(ret.out)) =>
        /\ ret.out.error.kind = "ValueError"
        /\ ret.out.error.msg =
              (IF Entered(ret.out, "input_pdf_setup")
               THEN "Error processing PDF: " ELSE "Error processing DOCX: ")
              \o ret.out.raised.msg
        /\ ret.out.raised.kind \in {"PDFPageCountError", "IndexError", "BadZipFile"}
        /\ TimesEntered(ret.out, "convert_from_bytes") <= 1
        /\ TimesEntered(ret.out, "Document") <= 1
        /\ ret.out.parts = <<>>

\* a PDF without pages has failed in input_pdf_setup
C6_Witness ==
    /\ ret.called
    /\ IsPdfName(ret.given.name)
    /\ ret.given.data = <<PDFMagic>>
    /\ ret.out.raised.kind = "IndexError"
    /\ ~ret.out.ok

Payload(out) == [ok |-> out.ok, parts |-> out.parts, error |-> out.error]

\* C7: a call on the bytes of the previous call gives the payload of the
\* previous call, whether the file object is the same one, at whatever
\* read position, or a fresh one.
C7_SameInputSamePayload ==
    [][(ret.called /\ arg' = arg + 1) => Payload(ret'.out) = Payload(ret.out)]_vars

\* a second call has succeeded on a PDF whose read position was at the end
C7_Witness ==
    /\ arg = 2
    /\ ret.called
    /\ IsPdfName(ret.given.name)
    /\ ret.given.pos = Len(ret.given.data)
    /\ ret.given.pos > 0
    /\ ret.out.ok

\* C8: a successful call returns one part, of MIME type image/jpeg, whose
\* data encodes one bitmap: the first page of the PDF, or the one canvas
\* with the text of the DOCX.
C8_OneJpegPart ==
    (ret.called /\ ret.out.ok) =>
        /\ Len(ret.out.parts) = 1
        /\ ret.out.parts[1].mime_type = "image/jpeg"
        /\ ret.out.parts[1].data.base64.format = "JPEG"
        /\ ret.out.parts[1].data.base64.image.mode = "RGB"
        /\ IsPdfName(ret.given.name) =>
              ret.out.parts[1].data.base64.image.page = ret.given.data[2]
        /\ ~IsPdfName(ret.given.name) =>
              ret.out.parts[1].data.base64.image.size[1] = 900

\* a PDF of two different pages has been processed
C8_Witness ==
    /\ ret.called
    /\ ret.out.ok
    /\ ret.given.data = <<PDFMagic, <<"page-A">>, <<"page-B">>>>

----------------------------------------------------------------------------
\* The page: its widgets and button handlers.  One script run serves one
\* widget event.  What the handlers only display is not modelled, and the
\* wall-clock 'timestamp' of a history entry is left out.

history_limit == 200

\* the reply of the hosted model: a text, or a failure of the call
LongReply == Rep("x", history_limit + 1)

ReplyTexts == {<<"8", "2", "%">>, LongReply}

Replies == {[ok |-> TRUE, text |-> t] : t \in ReplyTexts}
             \cup {[ok |-> FALSE, text |-> EmptyStr]}

\* lines 35-68: the text of the reply, or a ValueError around any failure
get_gemini_response(reply) ==
    IF reply.ok THEN [ok |-> TRUE, text |-> reply.text, error |-> NoError]
    ELSE [ok |-> FALSE, text |-> EmptyStr,
          error |-> ValueError("Error generating response from Gemini model: failed")]

PromptKeys == {"submit1", "submit3", "submit4", "submit5", "submit6"}

\* line 561: prompt_key.replace('submit', 'Analysis ')
HistoryType(prompt_key) ==
    CASE prompt_key = "submit1" -> "Analysis 1"
      [] prompt_key = "submit3" -> "Analysis 3"
      [] prompt_key = "submit4" -> "Analysis 4"
      [] prompt_key = "submit5" -> "Analysis 5"
      [] prompt_key = "submit6" -> "Analysis 6"

\* line 563: response[:200] + "..." if len(response) > 200 else response
HistoryResponse(response) ==
    IF Len(response) > history_limit
    THEN SubSeq(response, 1, history_limit) \o <<".", ".", ".">>
    ELSE response

\* st.file_uploader(type=["pdf", "docx"]): the extension, compared without
\* regard to case, is one of the two
UploaderAccepts(name) ==
    LET lower == [i \in 1..Len(name) |-> Lower(name[i])]
    IN  EndsWith(lower, <<".", "p", "d", "f">>) \/ EndsWith(lower, <<".", "d", "o", "c", "x">>)

PageFiles ==
    {[name |-> <<"r", ".", "p", "d", "f">>, data |-> <<PDFMagic, <<"page-A">>>>],
     [name |-> <<"r", ".", "p", "d", "f">>, data |-> <<<<"junk">>>>],
     [name |-> <<"r", ".", "d", "o", "c", "x">>, data |-> <<ZipMagic, <<"a", "b", " ", "c">>>>],
     [name |-> <<"r", ".", "P", "D", "F">>, data |-> <<PDFMagic, <<"page-A">>>>],
     [name |-> <<"r", ".", "t", "x", "t">>, data |-> <<PDFMagic, <<"page-A">>>>]}

JobTexts == {EmptyStr, <<" ">>, <<"j", "d">>}

Ran(handler, status, failed, calls) ==
    [called |-> TRUE, handler |-> handler, status |-> status,
     failed |-> failed, calls |-> calls]

Init ==
    /\ chat_history = <<>>
    /\ analysis_results = EmptyDict
    /\ resume_text = EmptyStr
    /\ uploaded_file = None
    /\ input_text = EmptyStr
    /\ arial \in BOOLEAN
    /\ arg = 0
    /\ ret = NotCalled

\* lines 415-419: the user picks a file, or removes it
Upload ==
    /\ \E f \in PageFiles :
          /\ UploaderAccepts(f.name)
          /\ uploaded_file' = [name |-> f.name, data |-> f.data, pos |-> 0]
    /\ ret' = Ran("upload", "ok", "", <<>>)
    /\ UNCHANGED <<chat_history, analysis_results, resume_text, input_text, arial, arg>>

RemoveFile ==
    /\ uploaded_file # None
    /\ uploaded_file' = None
    /\ ret' = Ran("remove", "ok", "", <<>>)
    /\ UNCHANGED <<chat_history, analysis_results, resume_text, input_text, arial, arg>>

\* lines 407-412: the user edits the job description
EditJobDescription ==
    /\ \E t \in JobTexts : t # input_text /\ input_text' = t
    /\ ret' = Ran("edit", "ok", "", <<>>)
    /\ UNCHANGED <<chat_history, analysis_results, resume_text, uploaded_file, arial, arg>>

\* lines 396-397
ClearChatHistory ==
    /\ chat_history' = <<>>
    /\ ret' = Ran("clear", "ok", "", <<>>)
    /\ UNCHANGED <<analysis_results, resume_text, uploaded_file, input_text, arial, arg>>

Asked(out, answer) ==
    IF ~out.ok
    THEN [ok |-> FALSE, failed |-> "process_uploaded_file", text |-> EmptyStr,
          file |-> out.file, resume_text |-> out.resume_text,
          calls |-> <<"process_uploaded_file">>]
    ELSE IF ~answer.ok
    THEN [ok |-> FALSE, failed |-> "get_gemini_response", text |-> EmptyStr,
          file |-> out.file, resume_text |-> out.resume_text,
          calls |-> <<"process_uploaded_file", "get_gemini_response">>]
    ELSE [ok |-> TRUE, failed |-> "", text |-> answer.text,
          file |-> out.file, resume_text |-> out.resume_text,
          calls |-> <<"process_uploaded_file", "get_gemini_response">>]

\* process_uploaded_file, then get_gemini_response: lines 462-464, 482-484,
\* 495-497 and 531-533; the gateway is called only with the file parts
NormalizeThenAsk(endpos, reply) ==
    Asked(process_uploaded_file(uploaded_file, resume_text, endpos, arial),
          get_gemini_response(reply))

\* where Document may leave the read position of the uploaded file
EndPositions ==
    IF uploaded_file # None /\ ~IsPdfName(uploaded_file.name) /\ IsDocxName(uploaded_file.name)
    THEN 0..Len(uploaded_file.data) ELSE {0}

IsBlank_Unstripped(text) == text = EmptyStr

\* line 518: not input_text.strip()
IsBlank(text) == Strip(text) = EmptyStr

\* lines 512-570: one of the five analysis buttons
MainAction(prompt_key) ==
    IF uploaded_file = None \/ IsBlank(input_text)
    THEN /\ ret' = Ran("main", "stopped", "guard", <<>>)
         /\ UNCHANGED <<chat_history, analysis_results, resume_text, uploaded_file,
                        input_text, arial, arg>>
    ELSE \E endpos \in EndPositions, reply \in Replies :
           \E r \in {NormalizeThenAsk(endpos, reply)} :
               /\ uploaded_file' = r.file
               /\ resume_text' = r.resume_text
               /\ IF r.ok
                  THEN /\ Len(chat_history) < MaxHistory
                       /\ analysis_results' = analyze_resume_structure(r.text)
                       /\ chat_history' = Append(chat_history,
                              [type |-> HistoryType(prompt_key),
                               response |-> HistoryResponse(r.text)])
                       /\ ret' = Ran("main", "ok", "",
                              r.calls \o <<"analyze_resume_structure", "chat_history.append">>)
                  ELSE /\ ret' = Ran("main", "error", r.failed, r.calls)
                       /\ UNCHANGED <<chat_history, analysis_results>>
               /\ UNCHANGED <<input_text, arial, arg>>

\* lines 458-475
InterviewQuestions ==
    /\ uploaded_file # None
    /\ input_text # EmptyStr
    /\ \E endpos \in EndPositions, reply \in Replies :
          \E r \in {NormalizeThenAsk(endpos, reply)} :
              /\ uploaded_file' = r.file
              /\ resume_text' = r.resume_text
              /\ IF r.ok
                 THEN /\ Len(chat_history) < MaxHistory
                      /\ chat_history' = Append(chat_history,
                             [type |-> "Interview Questions", response |-> r.text])
                      /\ ret' = Ran("interview", "ok", "",
                             r.calls \o <<"chat_history.append">>)
                 ELSE /\ ret' = Ran("interview", "error", r.failed, r.calls)
                      /\ UNCHANGED chat_history
    /\ UNCHANGED <<analysis_results, input_text, arial, arg>>

\* lines 478-488
CoverLetterTips ==
    /\ uploaded_file # None
    /\ input_text # EmptyStr
    /\ \E endpos \in EndPositions, reply \in Replies :
          \E r \in {NormalizeThenAsk(endpos, reply)} :
              /\ uploaded_file' = r.file
              /\ resume_text' = r.resume_text
              /\ ret' = Ran("cover", IF r.ok THEN "ok" ELSE "error", r.failed, r.calls)
    /\ UNCHANGED <<chat_history, analysis_results, input_text, arial, arg>>

\* lines 491-501
ATSOptimization ==
    /\ uploaded_file # None
    /\ \E endpos \in EndPositions, reply \in Replies :
          \E r \in {NormalizeThenAsk(endpos, reply)} :
              /\ uploaded_file' = r.file
              /\ resume_text' = r.resume_text
              /\ ret' = Ran("ats", IF r.ok THEN "ok" ELSE "error", r.failed, r.calls)
    /\ UNCHANGED <<chat_history, analysis_results, input_text, arial, arg>>

Next ==
    \/ Upload
    \/ RemoveFile
    \/ EditJobDescription
    \/ ClearChatHistory
    \/ \E prompt_key \in PromptKeys : MainAction(prompt_key)
    \/ InterviewQuestions
    \/ CoverLetterTips
    \/ ATSOptimization

Spec == Init /\ [][Next]_vars

PipelineSteps ==
    <<"process_uploaded_file", "get_gemini_response",
      "analyze_resume_structure", "chat_history.append">>

\* C10: a run of an analysis button enters the normalizer, the gateway, the
\* extractor and the history append in this order and stops at the first
\* failure; without a file or with a blank job description nothing is
\* entered; a run that fails leaves chat_history and analysis_results as
\* they were, and a run that succeeds appends one entry.
C10_PipelineOrder ==
    [][ret'.handler = "main" =>
         LET c == ret'.calls
             blank == \A i \in 1..Len(input_text) : input_text[i] \in {" ", "\n", "\t"}
         IN  /\ Len(c) <= 4
             /\ c = SubSeq(PipelineSteps, 1, Len(c))
             /\ (uploaded_file = None \/ blank) => (c = <<>> /\ ret'.status = "stopped")
             /\ ret'.status # "ok" =>
                   /\ chat_history' = chat_history
                   /\ analysis_results' = analysis_results
                   /\ Len(c) <= 2
                   /\ (Len(c) > 0 => ret'.failed = c[Len(c)])
             /\ ret'.status = "ok" =>
                   /\ c = PipelineSteps
                   /\ Len(chat_history') = Len(chat_history) + 1
                   /\ SubSeq(chat_history', 1, Len(chat_history)) = chat_history
       ]_vars

\* an analysis run has gone through all four steps and left its entry
C10_Witness ==
    /\ ret.called
    /\ ret.handler = "main"
    /\ ret.status = "ok"
    /\ Len(chat_history) = 1
    /\ chat_history[1].type = "Analysis 3"
    /\ analysis_results # EmptyDict
    /\ analysis_results.match_percentage = 82

====
